---- MODULE Spec2Model ----
(***************************************************************************)
(* Brick-Controller: the brick state kept by Controller, the commands it   *)
(* hands to MqttHandler, and the MQTT session flag.                        *)
(*                                                                         *)
(* A brick is a record with the fields of BrickState.  The values of mac,  *)
(* port and controller are opaque to the program and of mixed Python type  *)
(* (str or int), so they are carried as tagged pairs Str(s) / Num(n).      *)
(***************************************************************************)
EXTENDS Integers, Sequences, FiniteSets, TLC

\* ---------------------------------------------------------------- bounds
MaxBricks == 2

\* most message_received deliveries waiting in the GUI thread's event queue
MaxInbox == 2

\* ------------------------------------------------------------- constants
SLIDER_MIN == 0
SLIDER_MAX == 100

\* ---------------------------------------------------------------- values
Str(s) == <<"str", s>>
Num(n) == <<"int", n>>

\* dict.get(key, default)
Get(d, k, default) == IF k \in DOMAIN d THEN d[k] ELSE default

\* BrickState.__init__ with its keyword defaults
BrickState(name, mac, port, controller, power, direction, running, connected) ==
    [name |-> name, mac |-> mac, port |-> port, controller |-> controller,
     power |-> power, direction |-> direction, running |-> running,
     connected |-> connected]

\* BrickState.from_dict
from_dict(d) ==
    BrickState(d["name"], d["mac"], d["port"], d["controller"],
               Get(d, "power", 0), Get(d, "direction", "forward"),
               Get(d, "running", FALSE), Get(d, "connected", FALSE))

\* BrickState.to_dict
to_dict(b) ==
    [name |-> b.name, mac |-> b.mac, port |-> b.port, controller |-> b.controller,
     power |-> b.power, direction |-> b.direction, running |-> b.running,
     connected |-> b.connected]

RequiredKeys == {"name", "mac", "port", "controller"}

\* load_bricks: a missing file, or any exception while reading it (here the
\* KeyError of from_dict on an entry without a required key), gives [].
load_bricks(file) ==
    IF ~file.exists THEN <<>>
    ELSE IF \E i \in 1..Len(file.data) : ~(RequiredKeys \subseteq DOMAIN file.data[i])
         THEN <<>>
         ELSE [i \in 1..Len(file.data) |->
                 from_dict(IF "connected" \in DOMAIN file.data[i]
                           THEN file.data[i]
                           ELSE file.data[i] @@ ("connected" :> FALSE))]

\* ------------------------------------------------- persisted config files
\* an entry written by hand: identity only
DictM1 == [name |-> "M1", mac |-> Str("AA:BB"), port |-> Num(1), controller |-> Str("X")]
\* an entry as save_bricks writes it while the brick is connected and running
DictM2 == to_dict(BrickState("M2", Str("CC:DD"), Num(2), Str("Y"),
                             55, "backward", TRUE, TRUE))
\* an entry without "mac"
DictBad == [name |-> "M3", port |-> Num(3), controller |-> Str("X")]

\* no file, a file with an entry that lacks a key, and well-formed files
ConfigFiles ==
    {[exists |-> FALSE, data |-> <<>>],
     [exists |-> TRUE, data |-> <<DictM1, DictBad>>],
     [exists |-> TRUE, data |-> <<DictM1>>],
     [exists |-> TRUE, data |-> <<DictM2>>],
     [exists |-> TRUE, data |-> <<DictM1, DictM2>>]}

\* ------------------------------------------------------ add-brick dialog
\* texts the operator may type into AddBrickDialog
NameTexts == {"M1"}
ControllerText == "Z"
MacText == "EE:FF"
PortTexts == {"3", "x"}

\* int(text): the number, or ValueError
py_int(t) == CASE t = "3" -> [ok |-> TRUE, v |-> 3]
               [] OTHER   -> [ok |-> FALSE, v |-> 0]

\* AddBrickDialog.get_brick: the four texts are passed positionally to
\* BrickState(name, mac, port, controller), so the controller text lands in
\* mac, the mac text in port and the parsed port in controller.
get_brick(name_text, controller_text, mac_text, port_text) ==
    BrickState(name_text, Str(controller_text), Str(mac_text),
               Num(py_int(port_text).v), 0, "forward", FALSE, FALSE)

\* ------------------------------------------------------------ the state
VARIABLES
    bricks,          \* Controller.bricks: sequence of BrickState
    active_brick,    \* Controller.active_brick: index into bricks, 0 = None
    slider,          \* QSlider value
    slider_enabled,  \* QSlider enabled
    forward_btn,     \* forward button enabled
    backward_btn,    \* backward button enabled
    stop_btn,        \* stop button enabled
    mqtt_connected,  \* MqttHandler.connected
    loop_thread,     \* paho network thread started by loop_start
    sock,            \* paho connection: "closed", "connecting", "open"
    pc,              \* "run", "close_sleep1", "close_sleep2", "quit"
    close_i,         \* close_app: index of the brick being handled
    lastOp,          \* the handler that ran last
    lastArg,         \* its argument (SetPower: the requested value)
    handed,          \* dicts the last handler passed to MqttHandler.send_command
    sent,            \* payloads the last handler published on the command topic
    target,          \* index of the brick those payloads are for, 0 = none
    wire_power,      \* per brick: power of the last dict handed over for it, -1 = none
    inbox,           \* message_received emissions queued for the GUI thread
    statusbar_label, \* text of Controller.statusbar_label
    heard            \* texts the last step passed to set_status_bar

gui == <<bricks, active_brick, slider, slider_enabled, forward_btn, backward_btn,
         stop_btn>>
session == <<mqtt_connected, loop_thread, sock>>
vars == <<bricks, active_brick, slider, slider_enabled, forward_btn, backward_btn,
          stop_btn, mqtt_connected, loop_thread, sock, pc, close_i,
          lastOp, lastArg, handed, sent, target, wire_power,
          inbox, statusbar_label, heard>>

\* ------------------------------------------------------- slider plumbing
\* mutant: the slider does not bound the value
qBound_unbounded(lo, v, hi) == v

qBound(lo, v, hi) == IF v < lo THEN lo ELSE IF v > hi THEN hi ELSE v

\* mutant: the slider value is written to every brick
on_slider_moved_all(bs, act, value) ==
    IF act = 0 THEN bs ELSE [i \in 1..Len(bs) |-> [bs[i] EXCEPT !.power = value]]

\* Controller.on_slider_moved(value)
on_slider_moved(bs, act, value) ==
    IF act = 0 THEN bs ELSE [bs EXCEPT ![act].power = value]

\* QSlider.setValue on a slider of range 0..100 wired to on_slider_moved:
\* the value is bounded to the range, valueChanged fires only on a change.
slider_setValue(bs, act, sl, v) ==
    LET nv == qBound(SLIDER_MIN, v, SLIDER_MAX) IN
    [slider |-> nv,
     bricks |-> IF nv = sl THEN bs ELSE on_slider_moved(bs, act, nv)]

\* mutant: the list is refreshed without resetting connected
refresh_brick_list_keeps_connected(bs) == bs

\* Controller.refresh_brick_list
refresh_brick_list(bs) == [i \in 1..Len(bs) |-> [bs[i] EXCEPT !.connected = FALSE]]

\* Controller.select_brick(brick): active_brick is set before slider.setValue
select_brick(bs, i, sl) == slider_setValue(bs, i, sl, bs[i].power)

\* --------------------------------------------------------------- commands
\* mutant: controller and mac swapped in the dict
Command_swapped(b, disconnect) ==
    [controller |-> b.mac, mac |-> b.controller, port |-> b.port,
     power |-> b.power, direction |-> b.direction, disconnect |-> disconnect]

\* the dict built by Controller.send_command
Command(b, disconnect) ==
    [controller |-> b.controller, mac |-> b.mac, port |-> b.port,
     power |-> b.power, direction |-> b.direction, disconnect |-> disconnect]

\* mutant: the connected test is missing
mqtt_send_command_unguarded(connected, cmd) == <<cmd>>

\* MqttHandler.send_command(cmd): the payloads published on the command topic
mqtt_send_command(connected, cmd) == IF ~connected THEN <<>> ELSE <<cmd>>

\* mutant: the disconnect argument is dropped
send_command_no_flag(bs, act, disconnect) ==
    IF act = 0 THEN <<>> ELSE <<Command(bs[act], FALSE)>>

\* Controller.send_command(disconnect): the dicts handed to MqttHandler.send_command
send_command(bs, act, disconnect) ==
    IF act = 0 THEN <<>> ELSE <<Command(bs[act], disconnect)>>

\* the two dicts built by Controller.close_app for one brick
CloseCommand(b, disconnect) ==
    [controller |-> b.controller, mac |-> b.mac, port |-> b.port,
     power |-> 0, direction |-> "forward", disconnect |-> disconnect]

\* bookkeeping: the handler `op` handed the dicts `cmds` (at most one), built
\* for brick `tgt`, to MqttHandler.send_command
Record(op, arg, cmds, tgt) ==
    LET out == IF Len(cmds) = 0 THEN <<>> ELSE mqtt_send_command(mqtt_connected, cmds[1]) IN
    /\ lastOp' = op
    /\ lastArg' = arg
    /\ handed' = cmds
    /\ sent' = out
    /\ target' = IF Len(cmds) = 0 THEN 0 ELSE tgt
    /\ wire_power' = IF Len(cmds) = 0 THEN wire_power
                     ELSE [wire_power EXCEPT ![tgt] = cmds[1].power]
    /\ heard' = <<>>
    /\ UNCHANGED <<inbox, statusbar_label>>

\* ------------------------------------------------------------ MQTT session
\* MqttHandler.connect: client.connect raises (ok = FALSE) or leaves the
\* connection waiting for CONNACK and loop_start starts the network thread
\* unless one is running.
mqtt_connect(s, ok) ==
    IF ok THEN [connected |-> s.connected, loop_thread |-> TRUE, sock |-> "connecting"]
    ELSE [connected |-> s.connected, loop_thread |-> s.loop_thread, sock |-> "closed"]

\* MqttHandler.disconnect
mqtt_disconnect(s) ==
    IF s.connected
    THEN [connected |-> FALSE, loop_thread |-> FALSE, sock |-> "closed"]
    ELSE s

Session == [connected |-> mqtt_connected, loop_thread |-> loop_thread, sock |-> sock]

SetSession(s) ==
    /\ mqtt_connected' = s.connected
    /\ loop_thread' = s.loop_thread
    /\ sock' = s.sock

\* ------------------------------------------------------------------ Init
\* Controller.__init__: mqtt.connect(), load_bricks(), setup_ui() (which ends
\* in refresh_brick_list()), then select_brick(bricks[0]) if there is one.
Init ==
    \E file \in ConfigFiles, ok \in BOOLEAN :
        LET s0 == mqtt_connect([connected |-> FALSE, loop_thread |-> FALSE,
                                sock |-> "closed"], ok)
            loaded == refresh_brick_list(load_bricks(file))
            sel == IF Len(loaded) > 0 THEN select_brick(loaded, 1, 0)
                   ELSE [slider |-> 0, bricks |-> loaded]
        IN /\ bricks = sel.bricks
           /\ active_brick = (IF Len(loaded) > 0 THEN 1 ELSE 0)
           /\ slider = sel.slider
           /\ slider_enabled = FALSE
           /\ forward_btn = FALSE
           /\ backward_btn = FALSE
           /\ stop_btn = FALSE
           /\ mqtt_connected = s0.connected
           /\ loop_thread = s0.loop_thread
           /\ sock = s0.sock
           /\ pc = "run"
           /\ close_i = 0
           /\ lastOp = "init"
           /\ lastArg = 0
           /\ handed = <<>>
           /\ sent = <<>>
           /\ target = 0
           /\ wire_power = [i \in 1..Len(loaded) |-> -1]
           /\ inbox = <<>>
           /\ statusbar_label = <<"Welcome">>
           /\ heard = <<>>

\* --------------------------------------------------------- GUI handlers
\* values the operator may drag the slider to (QSlider bounds them)
PowerInputs == {-5, 55, 120}
Directions == {"forward", "backward"}

\* brick_list.itemClicked -> on_brick_selected(item): the first brick with
\* the item's name is selected
OnBrickSelected(i) ==
    /\ pc = "run"
    /\ i \in 1..Len(bricks)
    /\ LET name == bricks[i].name
           j == CHOOSE k \in 1..Len(bricks) :
                    /\ bricks[k].name = name
                    /\ \A m \in 1..(k-1) : bricks[m].name # name
           r == select_brick(bricks, j, slider)
       IN /\ active_brick' = j
          /\ bricks' = r.bricks
          /\ slider' = r.slider
    /\ UNCHANGED <<slider_enabled, forward_btn, backward_btn, stop_btn,
                   session, pc, close_i>>
    /\ Record("Select", 0, <<>>, 0)

\* mutant: every slider move is sent
SetPower_dispatching(v) ==
    /\ pc = "run"
    /\ slider_enabled
    /\ LET r == slider_setValue(bricks, active_brick, slider, v)
       IN /\ bricks' = r.bricks
          /\ slider' = r.slider
          /\ Record("SetPower", v, send_command(r.bricks, active_brick, FALSE), active_brick)
    /\ UNCHANGED <<active_brick, slider_enabled, forward_btn, backward_btn, stop_btn,
                   session, pc, close_i>>

\* the operator moves the (enabled) slider: valueChanged -> on_slider_moved
SetPower(v) ==
    /\ pc = "run"
    /\ slider_enabled
    /\ LET r == slider_setValue(bricks, active_brick, slider, v)
       IN /\ bricks' = r.bricks
          /\ slider' = r.slider
    /\ UNCHANGED <<active_brick, slider_enabled, forward_btn, backward_btn, stop_btn,
                   session, pc, close_i>>
    /\ Record("SetPower", v, <<>>, 0)

\* Controller.on_slider_released
on_slider_released(bs, act) ==
    IF act = 0 THEN bs ELSE [bs EXCEPT ![act].running = (bs[act].power > 0)]

\* the operator releases the (enabled) slider: sliderReleased
CommitPower ==
    /\ pc = "run"
    /\ slider_enabled
    /\ bricks' = on_slider_released(bricks, active_brick)
    /\ UNCHANGED <<active_brick, slider, slider_enabled, forward_btn, backward_btn,
                   stop_btn, session, pc, close_i>>
    /\ Record("CommitPower", 0, send_command(bricks', active_brick, FALSE), active_brick)

\* Controller.set_direction(direction)
set_direction(bs, act, direction) ==
    IF act = 0 THEN bs ELSE [bs EXCEPT ![act].direction = direction]

\* the operator clicks the (enabled) Forward or Backward button
SetDirection(d) ==
    /\ pc = "run"
    /\ IF d = "forward" THEN forward_btn ELSE backward_btn
    /\ bricks' = set_direction(bricks, active_brick, d)
    /\ UNCHANGED <<active_brick, slider, slider_enabled, forward_btn, backward_btn,
                   stop_btn, session, pc, close_i>>
    /\ Record("SetDirection", 0, send_command(bricks', active_brick, FALSE), active_brick)

\* mutant: connecting also resets the direction
connect_brick_resets_direction(bs, act, sl) ==
    slider_setValue([bs EXCEPT ![act].running = FALSE, ![act].power = 0,
                                ![act].direction = "forward",
                                ![act].connected = TRUE], act, sl, 0)

\* Controller.connect_brick up to its send_command
connect_brick(bs, act, sl) ==
    slider_setValue([bs EXCEPT ![act].running = FALSE, ![act].power = 0,
                                ![act].connected = TRUE], act, sl, 0)

\* the operator clicks Connect
Connect ==
    /\ pc = "run"
    /\ IF active_brick = 0
       THEN /\ UNCHANGED <<bricks, slider, slider_enabled, forward_btn, backward_btn,
                           stop_btn>>
            /\ Record("Connect", 0, <<>>, 0)
       ELSE LET r == connect_brick(bricks, active_brick, slider)
            IN /\ bricks' = r.bricks
               /\ slider' = r.slider
               /\ slider_enabled' = r.bricks[active_brick].connected
               /\ forward_btn' = r.bricks[active_brick].connected
               /\ backward_btn' = r.bricks[active_brick].connected
               /\ stop_btn' = r.bricks[active_brick].connected
               /\ Record("Connect", 0, send_command(r.bricks, active_brick, FALSE),
                         active_brick)
    /\ UNCHANGED <<active_brick, session, pc, close_i>>

\* mutant: disconnecting leaves running as it was
disconnect_brick_keeps_running(bs, act, sl) ==
    slider_setValue([bs EXCEPT ![act].power = 0, ![act].connected = FALSE], act, sl, 0)

\* Controller.disconnect_brick up to its send_command
disconnect_brick(bs, act, sl) ==
    slider_setValue([bs EXCEPT ![act].running = FALSE, ![act].power = 0,
                                ![act].connected = FALSE], act, sl, 0)

\* the operator clicks Disconnect
Disconnect ==
    /\ pc = "run"
    /\ IF active_brick = 0
       THEN /\ UNCHANGED <<bricks, slider, slider_enabled, forward_btn, backward_btn,
                           stop_btn>>
            /\ Record("Disconnect", 0, <<>>, 0)
       ELSE LET r == disconnect_brick(bricks, active_brick, slider)
                c == [bricks EXCEPT ![active_brick].connected = FALSE][active_brick].connected
            IN /\ bricks' = r.bricks
               /\ slider' = r.slider
               /\ slider_enabled' = c
               /\ forward_btn' = c
               /\ backward_btn' = c
               /\ stop_btn' = c
               /\ Record("Disconnect", 0, send_command(r.bricks, active_brick, TRUE),
                         active_brick)
    /\ UNCHANGED <<active_brick, session, pc, close_i>>

\* mutant: stopping leaves running as it was
stop_keeps_running(bs, act, sl) ==
    IF act = 0 THEN [slider |-> sl, bricks |-> bs]
    ELSE slider_setValue([bs EXCEPT ![act].power = 0], act, sl, 0)

\* Controller.stop up to its send_command
stop(bs, act, sl) ==
    IF act = 0 THEN [slider |-> sl, bricks |-> bs]
    ELSE slider_setValue([bs EXCEPT ![act].running = FALSE, ![act].power = 0], act, sl, 0)

\* the operator clicks the (enabled) Stop button
Stop ==
    /\ pc = "run"
    /\ stop_btn
    /\ LET r == stop(bricks, active_brick, slider)
       IN /\ bricks' = r.bricks
          /\ slider' = r.slider
          /\ Record("Stop", 0, send_command(r.bricks, active_brick, FALSE), active_brick)
    /\ UNCHANGED <<active_brick, slider_enabled, forward_btn, backward_btn, stop_btn,
                   session, pc, close_i>>

\* Controller.add_brick: the dialog is accepted or cancelled; get_brick may
\* raise on the port text.  save_bricks writes bricks.json, which the running
\* program never reads again (load_bricks runs once, in __init__), so the
\* file is no variable here.
AddBrick(accepted, name_text, port_text) ==
    /\ pc = "run"
    /\ Len(bricks) < MaxBricks
    /\ IF accepted /\ py_int(port_text).ok
       THEN LET new_brick == [get_brick(name_text, ControllerText, MacText, port_text)
                                EXCEPT !.connected = FALSE]
                appended == Append(bricks, new_brick)
            IN /\ bricks' = refresh_brick_list(appended)
               /\ wire_power' = Append(wire_power, -1)
       ELSE UNCHANGED <<bricks, wire_power>>
    /\ lastOp' = "AddBrick"
    /\ lastArg' = 0
    /\ handed' = <<>>
    /\ sent' = <<>>
    /\ target' = 0
    /\ heard' = <<>>
    /\ UNCHANGED <<active_brick, slider, slider_enabled, forward_btn, backward_btn,
                   stop_btn, session, pc, close_i, inbox, statusbar_label>>

\* Controller.reconnect: mqtt.disconnect() then mqtt.connect()
Reconnect(ok) ==
    /\ pc = "run"
    /\ SetSession(mqtt_connect(mqtt_disconnect(Session), ok))
    /\ UNCHANGED <<gui, pc, close_i>>
    /\ Record("Reconnect", 0, <<>>, 0)

\* Controller.close_app, cut at its time.sleep calls (the GUI thread sleeps,
\* the network thread keeps running).
\* First step: the Close click up to the first sleep.
CloseAppBegin ==
    /\ pc = "run"
    /\ IF Len(bricks) = 0
       THEN /\ SetSession(mqtt_disconnect(Session))
            /\ pc' = "quit"
            /\ close_i' = 0
            /\ Record("Close", 0, <<>>, 0)
       ELSE /\ UNCHANGED session
            /\ pc' = "close_sleep1"
            /\ close_i' = 1
            /\ Record("Close", 0, <<CloseCommand(bricks[1], FALSE)>>, 1)
    /\ UNCHANGED gui

\* after the first sleep: the disconnect dict of the same brick
CloseAppDisconnect ==
    /\ pc = "close_sleep1"
    /\ pc' = "close_sleep2"
    /\ UNCHANGED <<gui, session, close_i>>
    /\ Record("Close", 0, <<CloseCommand(bricks[close_i], TRUE)>>, close_i)

\* mutant: the loop ends after the first brick
CloseAppNext_first_only ==
    /\ pc = "close_sleep2"
    /\ SetSession(mqtt_disconnect(Session))
    /\ pc' = "quit"
    /\ UNCHANGED close_i
    /\ Record("Close", 0, <<>>, 0)
    /\ UNCHANGED gui

\* after the second sleep: the next brick, or mqtt.disconnect() and quit
CloseAppNext ==
    /\ pc = "close_sleep2"
    /\ IF close_i < Len(bricks)
       THEN /\ UNCHANGED session
            /\ pc' = "close_sleep1"
            /\ close_i' = close_i + 1
            /\ Record("Close", 0, <<CloseCommand(bricks[close_i + 1], FALSE)>>, close_i + 1)
       ELSE /\ SetSession(mqtt_disconnect(Session))
            /\ pc' = "quit"
            /\ UNCHANGED close_i
            /\ Record("Close", 0, <<>>, 0)
    /\ UNCHANGED gui

\* -------------------------------------------- network-thread callbacks
\* MqttHandler.on_connect(rc): CONNACK arrived
OnConnect(rc) ==
    /\ pc # "quit"
    /\ loop_thread
    /\ sock = "connecting"
    /\ IF rc = 0
       THEN /\ mqtt_connected' = TRUE
            /\ sock' = "open"
       ELSE /\ UNCHANGED mqtt_connected
            /\ sock' = "closed"
    /\ UNCHANGED <<gui, loop_thread, pc, close_i>>
    /\ Record("on_connect", 0, <<>>, 0)

\* MqttHandler.on_disconnect: the connection was lost
OnDisconnect ==
    /\ pc # "quit"
    /\ loop_thread
    /\ sock = "open"
    /\ mqtt_connected' = FALSE
    /\ sock' = "closed"
    /\ UNCHANGED <<gui, loop_thread, pc, close_i>>
    /\ Record("on_disconnect", 0, <<>>, 0)

\* the network thread started by loop_start retries a lost connection
AutoReconnect ==
    /\ pc # "quit"
    /\ loop_thread
    /\ sock = "closed"
    /\ sock' = "connecting"
    /\ UNCHANGED <<gui, mqtt_connected, loop_thread, pc, close_i>>
    /\ Record("auto_reconnect", 0, <<>>, 0)

ConnackCodes == {0, 5}

Next ==
    \/ \E i \in 1..MaxBricks : OnBrickSelected(i)
    \/ \E v \in PowerInputs : SetPower(v)
    \/ CommitPower
    \/ \E d \in Directions : SetDirection(d)
    \/ Connect
    \/ Disconnect
    \/ Stop
    \/ \E a \in BOOLEAN, n \in NameTexts, t \in PortTexts : AddBrick(a, n, t)
    \/ \E ok \in BOOLEAN : Reconnect(ok)
    \/ CloseAppBegin
    \/ CloseAppDisconnect
    \/ CloseAppNext
    \/ \E rc \in ConnackCodes : OnConnect(rc)
    \/ OnDisconnect
    \/ AutoReconnect

Spec == Init /\ [][Next]_vars

\* ------------------------------------------------------ status messages
\* payloads on the response topic: whether the bytes are UTF-8, whether the
\* text is a JSON object, and the object's "status" and "message" entries
\* (<<>> when the key is absent)
Payload(utf8, json, status, message) ==
    [utf8 |-> utf8, json |-> json, status |-> status, message |-> message]

Good == Payload(TRUE, TRUE, <<"ok">>, <<"done">>)
NoMessage == Payload(TRUE, TRUE, <<"ok">>, <<>>)
NotJson == Payload(TRUE, FALSE, <<>>, <<>>)
NotUtf8 == Payload(FALSE, FALSE, <<>>, <<>>)
Payloads == {Good, NoMessage, NotJson, NotUtf8}

\* MqttHandler.on_message: msg.payload.decode() and message_received.emit
\* inside one try; bytes that do not decode are printed and dropped, every
\* decoded text is emitted as it is. The emission is made on the network
\* thread and reaches the slot through the GUI thread's event queue.
on_message(queue, p) ==
    IF p.utf8 THEN Append(queue, p) ELSE queue

\* the exception Controller.set_status_bar(text) ends with, "none" if it returns
set_status_bar_raises(text) ==
    IF ~text.json THEN "JSONDecodeError"
    ELSE IF Len(text.status) = 0 \/ Len(text.message) = 0 THEN "KeyError"
    ELSE "none"

\* Controller.set_status_bar(text): the label after the call
set_status_bar(label, text) ==
    IF set_status_bar_raises(text) # "none" THEN label
    ELSE <<text.status[1], ",", text.message[1]>>

\* the network thread receives a message on the subscribed response topic
OnMessage(p) ==
    /\ pc # "quit"
    /\ loop_thread
    /\ sock = "open"
    /\ Len(inbox) < MaxInbox
    /\ inbox' = on_message(inbox, p)
    /\ lastOp' = "on_message"
    /\ lastArg' = 0
    /\ handed' = <<>>
    /\ sent' = <<>>
    /\ target' = 0
    /\ heard' = <<>>
    /\ UNCHANGED <<gui, session, pc, close_i, wire_power, statusbar_label>>

\* mutant: a status message marks the selected brick as running
DeliverStatus_syncs ==
    /\ pc = "run"
    /\ Len(inbox) > 0
    /\ statusbar_label' = set_status_bar(statusbar_label, Head(inbox))
    /\ inbox' = Tail(inbox)
    /\ heard' = <<Head(inbox)>>
    /\ bricks' = IF active_brick = 0 THEN bricks
                 ELSE [bricks EXCEPT ![active_brick].running = TRUE]
    /\ lastOp' = "set_status_bar"
    /\ lastArg' = 0
    /\ handed' = <<>>
    /\ sent' = <<>>
    /\ target' = 0
    /\ UNCHANGED <<active_brick, slider, slider_enabled, forward_btn,
                   backward_btn, stop_btn, session, pc, close_i, wire_power>>

\* the GUI thread runs the slot connected to message_received
\* (Controller.set_status_bar) on the oldest queued text
DeliverStatus ==
    /\ pc = "run"
    /\ Len(inbox) > 0
    /\ statusbar_label' = set_status_bar(statusbar_label, Head(inbox))
    /\ inbox' = Tail(inbox)
    /\ heard' = <<Head(inbox)>>
    /\ lastOp' = "set_status_bar"
    /\ lastArg' = 0
    /\ handed' = <<>>
    /\ sent' = <<>>
    /\ target' = 0
    /\ UNCHANGED <<gui, session, pc, close_i, wire_power>>

\* the program with its response topic, started on a bricks.json of one
\* brick and with the Add Brick dialog left alone
InitRx ==
    /\ Init
    /\ Len(bricks) = 1

NextRx ==
    \/ \E i \in 1..MaxBricks : OnBrickSelected(i)
    \/ \E v \in PowerInputs : SetPower(v)
    \/ CommitPower
    \/ \E d \in Directions : SetDirection(d)
    \/ Connect
    \/ Disconnect
    \/ Stop
    \/ \E ok \in BOOLEAN : Reconnect(ok)
    \/ CloseAppBegin
    \/ CloseAppDisconnect
    \/ CloseAppNext
    \/ \E rc \in ConnackCodes : OnConnect(rc)
    \/ OnDisconnect
    \/ AutoReconnect
    \/ \E p \in Payloads : OnMessage(p)
    \/ DeliverStatus

SpecRx == InitRx /\ [][NextRx]_vars

\* ======================================================================
\* Properties
\* ======================================================================
HasActive == active_brick # 0
Active == bricks[active_brick]
ConnectedOnly == {"SetPower", "CommitPower", "SetDirection", "Stop"}

\* C1 (as stated): in every reachable state every brick with connected = FALSE
\* has power = 0 and running = FALSE.
C1_DisconnectedIsIdle ==
    \A i \in 1..Len(bricks) :
        ~bricks[i].connected => (bricks[i].power = 0 /\ ~bricks[i].running)

\* C2 (as stated): SetPower, CommitPower, SetDirection or Stop applied to a
\* brick that is not connected leaves every field of that brick unchanged.
C2_IllegalTransitionNoOp ==
    [][(HasActive /\ ~Active.connected /\ lastOp' \in ConnectedOnly)
          => bricks'[active_brick] = bricks[active_brick]]_vars

\* C3 (as stated): CommitPower, SetDirection and Stop applied to a brick that
\* is not connected publish no command for it.
C3_NoDispatchWhenDisconnected ==
    (lastOp \in {"CommitPower", "SetDirection", "Stop"}
        /\ HasActive /\ ~Active.connected) => Len(sent) = 0

\* C4 (as stated): SetPower never dispatches a command, and a published
\* command whose power differs from the power last handed over for that
\* brick comes only from CommitPower, Stop, Connect or Disconnect.
PowerChange ==
    /\ Len(sent') > 0
    /\ wire_power[target'] # -1
    /\ sent'[1].power # wire_power[target']

C4_PowerChangeOnlyByCommit ==
    [][/\ lastOp' = "SetPower" => Len(handed') = 0
       /\ PowerChange => lastOp' \in {"CommitPower", "Stop", "Connect", "Disconnect"}]_vars

\* C4 (amended): SetPower never hands over a command; a command carrying a
\* power change comes only from CommitPower, SetDirection, Stop, Connect,
\* Disconnect or the application close.
C4_SetPowerNeverDispatches ==
    [][/\ lastOp' = "SetPower" => (Len(handed') = 0 /\ Len(sent') = 0)
       /\ PowerChange => lastOp' \in {"CommitPower", "SetDirection", "Stop", "Connect",
                                      "Disconnect", "Close"}]_vars

\* C4 witness: a connected brick previewing a power that was never handed over
C4_Witness ==
    /\ lastOp = "SetPower"
    /\ HasActive
    /\ Active.connected
    /\ Active.power = 55
    /\ wire_power[active_brick] = 0
    /\ Len(handed) = 0

Clamp(v, lo, hi) == IF v < lo THEN lo ELSE IF v > hi THEN hi ELSE v

\* C5: on a connected brick with the MQTT session connected, SetPower(v)
\* followed by CommitPower leaves power = clamp(v, 0, 100), running =
\* (power > 0) and publishes exactly one command with that power and
\* disconnect = FALSE.
C5_SetThenCommit ==
    [][(/\ lastOp = "SetPower"
        /\ lastOp' = "CommitPower"
        /\ HasActive
        /\ Active.connected
        /\ mqtt_connected)
       => LET b == bricks'[active_brick] IN
          /\ b.power = Clamp(lastArg, 0, 100)
          /\ b.running = (b.power > 0)
          /\ Len(sent') = 1
          /\ sent'[1].power = Clamp(lastArg, 0, 100)
          /\ sent'[1].disconnect = FALSE]_vars

\* C5 witness: the commit of a preview that the slider bounded to 100
C5_Witness ==
    /\ lastOp = "CommitPower"
    /\ HasActive
    /\ Active.connected
    /\ Active.power = 100
    /\ Active.running
    /\ Len(sent) = 1
    /\ sent[1].power = 100
    /\ sent[1].disconnect = FALSE

\* C6 (as stated): every connected brick has running = (power > 0).
C6_RunningIffPower ==
    \A i \in 1..Len(bricks) :
        bricks[i].connected => (bricks[i].running = (bricks[i].power > 0))

\* C7: Disconnect leaves the brick it is applied to with power = 0,
\* running = FALSE and connected = FALSE, whatever its state was.
C7_DisconnectResets ==
    [][(lastOp' = "Disconnect" /\ HasActive)
       => /\ bricks'[active_brick].power = 0
          /\ bricks'[active_brick].running = FALSE
          /\ bricks'[active_brick].connected = FALSE]_vars

\* C7 witness: a Disconnect has acted on the selected brick
C7_Witness ==
    /\ lastOp = "Disconnect"
    /\ HasActive
    /\ ~Active.connected
    /\ Active.power = 0
    /\ Len(handed) = 1
    /\ handed[1].disconnect

\* the record and the command of the M1 scenario
IsM1(b) ==
    /\ b.name = "M1"
    /\ b.mac = Str("AA:BB")
    /\ b.port = Num(1)
    /\ b.controller = Str("X")

M1ConnectCommand ==
    [controller |-> Str("X"), mac |-> Str("AA:BB"), port |-> Num(1),
     power |-> 0, direction |-> "forward", disconnect |-> FALSE]

\* C8: Connect leaves the brick connected with power = 0, running = FALSE
\* and its direction unchanged; for the record M1/AA:BB/1/X with direction
\* forward the command is exactly M1ConnectCommand.
C8_ConnectResets ==
    [][(lastOp' = "Connect" /\ HasActive)
       => /\ bricks'[active_brick].connected
          /\ bricks'[active_brick].power = 0
          /\ bricks'[active_brick].running = FALSE
          /\ bricks'[active_brick].direction = Active.direction
          /\ (IsM1(Active) /\ Active.direction = "forward")
                => /\ handed' = <<M1ConnectCommand>>
                   /\ mqtt_connected => sent' = <<M1ConnectCommand>>]_vars

\* C8 witness: the scenario's command was published
C8_Witness ==
    /\ lastOp = "Connect"
    /\ HasActive
    /\ IsM1(Active)
    /\ Active.connected
    /\ sent = <<M1ConnectCommand>>

\* C9 (as stated): every Connect publishes a command with disconnect = FALSE
\* and every Disconnect one with disconnect = TRUE.
C9_AlwaysPublished ==
    (lastOp \in {"Connect", "Disconnect"} /\ HasActive)
        => /\ Len(sent) = 1
           /\ sent[1].disconnect = (lastOp = "Disconnect")

\* C9 (amended): every Connect hands MqttHandler.send_command one command
\* with disconnect = FALSE and every Disconnect one with disconnect = TRUE;
\* it is published exactly when MqttHandler.connected is set.
C9_HandedAndPublishedIfConnected ==
    (lastOp \in {"Connect", "Disconnect"} /\ HasActive)
        => /\ Len(handed) = 1
           /\ handed[1].disconnect = (lastOp = "Disconnect")
           /\ target = active_brick
           /\ sent = (IF mqtt_connected THEN handed ELSE <<>>)

\* C9 witness: a Disconnect whose command was dropped by a session that is
\* not connected
C9_Witness ==
    /\ lastOp = "Disconnect"
    /\ HasActive
    /\ ~mqtt_connected
    /\ Len(handed) = 1
    /\ Len(sent) = 0

SameIdentity(c, b) ==
    /\ c.controller = b.controller
    /\ c.mac = b.mac
    /\ c.port = b.port

\* C10 (as stated): every published command carries the identity of the
\* brick it was built for and that brick's power and direction, and every
\* command with disconnect = TRUE carries power = 0.
C10_CommandMatchesState ==
    Len(sent) > 0
        => /\ SameIdentity(sent[1], bricks[target])
           /\ sent[1].power = bricks[target].power
           /\ sent[1].direction = bricks[target].direction
           /\ sent[1].disconnect => sent[1].power = 0

\* C10 (amended): as stated for the commands of Connect, Disconnect,
\* CommitPower, SetDirection and Stop; the commands of the application close
\* carry the brick's identity with power 0 and direction forward whatever
\* its state.
C10_CommandMatchesStateOrClose ==
    Len(sent) > 0
        => /\ SameIdentity(sent[1], bricks[target])
           /\ IF lastOp = "Close"
              THEN sent[1].power = 0 /\ sent[1].direction = "forward"
              ELSE /\ sent[1].power = bricks[target].power
                   /\ sent[1].direction = bricks[target].direction
           /\ sent[1].disconnect => sent[1].power = 0

\* C10 witness: a close command for a brick that is running backward
C10_Witness ==
    /\ lastOp = "Close"
    /\ Len(sent) = 1
    /\ bricks[target].direction = "backward"
    /\ bricks[target].power = 55
    /\ sent[1].direction = "forward"

\* C11: Stop on a connected brick leaves power = 0 and running = FALSE,
\* leaves connected and direction as they were, and hands over exactly one
\* command, with power 0 and disconnect = FALSE (published when the session is
\* connected); the slider's move to 0 adds no second command.
C11_StopResets ==
    [][(lastOp' = "Stop" /\ HasActive /\ Active.connected)
       => /\ bricks'[active_brick].power = 0
          /\ bricks'[active_brick].running = FALSE
          /\ bricks'[active_brick].connected = TRUE
          /\ bricks'[active_brick].direction = Active.direction
          /\ Len(handed') = 1
          /\ handed'[1].power = 0
          /\ handed'[1].disconnect = FALSE
          /\ target' = active_brick
          /\ sent' = (IF mqtt_connected THEN handed' ELSE <<>>)]_vars

\* C11 witness: a Stop on a connected brick whose single command was published
C11_Witness ==
    /\ lastOp = "Stop"
    /\ HasActive
    /\ Active.connected
    /\ Active.direction = "backward"
    /\ Active.power = 0
    /\ Len(sent) = 1
    /\ sent[1].power = 0

\* C12 (as stated): brick names are unique in the store in every reachable
\* state (an add with an existing name is rejected).
C12_NamesUnique ==
    \A i, j \in 1..Len(bricks) : bricks[i].name = bricks[j].name => i = j

\* C13: right after the list is loaded at startup every brick has
\* connected = FALSE, whatever bricks.json held for it.
C13_LoadedDisconnected ==
    lastOp = "init" => \A i \in 1..Len(bricks) : ~bricks[i].connected

\* C13 witness: a started program whose file held connected = TRUE for M2
C13_Witness ==
    /\ lastOp = "init"
    /\ Len(bricks) = 2
    /\ bricks[2].name = "M2"
    /\ DictM2.connected
    /\ ~bricks[2].connected

\* C14: a command handed to MqttHandler.send_command while the session is not
\* connected is not published, and nothing is published by a step that was
\* handed no command (no queue replays it once the session connects).
C14_NotConnectedDrops ==
    /\ (Len(handed) > 0 /\ ~mqtt_connected) => Len(sent) = 0
    /\ Len(sent) > 0 => sent = handed
    /\ lastOp \in {"on_connect", "on_disconnect", "auto_reconnect", "Reconnect"}
          => Len(sent) = 0

\* C14 witness: the session connected after a Connect whose command was dropped
C14_Witness ==
    /\ lastOp = "on_connect"
    /\ mqtt_connected
    /\ HasActive
    /\ Active.connected
    /\ wire_power[active_brick] = 0
    /\ Len(sent) = 0

\* C17 (as stated): opening the session while it is already connecting is a
\* no-op: a Reconnect taken while the flag is False (its disconnect() half
\* does nothing) and a connection attempt is pending leaves the session as
\* it was.
C17_OpenIdempotent ==
    [][(lastOp' = "Reconnect" /\ ~mqtt_connected /\ loop_thread
            /\ sock = "connecting")
       => /\ mqtt_connected' = mqtt_connected
          /\ loop_thread' = loop_thread
          /\ sock' = sock]_vars

\* C18 (as stated): once close_app has called mqtt.disconnect() the network
\* thread is stopped, in whatever state of the session the call was made.
C18_ClosedStopsLoop ==
    pc = "quit" => ~loop_thread

\* C19: close_app hands over, for each brick in list order, first a command
\* with power 0 and disconnect = FALSE and then one with disconnect = TRUE,
\* both with that brick's identity, and calls mqtt.disconnect() only after the
\* last brick's pair; every handed command is published iff the session is
\* connected at that moment.
C19_CloseOrder ==
    [][(pc' # pc)
       => /\ bricks' = bricks
          /\ sent' = (IF mqtt_connected THEN handed' ELSE <<>>)
          /\ \/ /\ pc = "run" /\ pc' = "close_sleep1"
                /\ close_i' = 1
                /\ Len(handed') = 1
                /\ SameIdentity(handed'[1], bricks[1])
                /\ handed'[1].power = 0
                /\ handed'[1].disconnect = FALSE
                /\ UNCHANGED session
             \/ /\ pc = "close_sleep1" /\ pc' = "close_sleep2"
                /\ close_i' = close_i
                /\ Len(handed') = 1
                /\ SameIdentity(handed'[1], bricks[close_i])
                /\ handed'[1].disconnect = TRUE
                /\ UNCHANGED session
             \/ /\ pc = "close_sleep2" /\ pc' = "close_sleep1"
                /\ close_i < Len(bricks)
                /\ close_i' = close_i + 1
                /\ Len(handed') = 1
                /\ SameIdentity(handed'[1], bricks[close_i + 1])
                /\ handed'[1].power = 0
                /\ handed'[1].disconnect = FALSE
                /\ UNCHANGED session
             \/ /\ pc' = "quit"
                /\ \/ pc = "close_sleep2" /\ close_i = Len(bricks)
                   \/ pc = "run" /\ Len(bricks) = 0
                /\ Len(handed') = 0
                /\ mqtt_connected' = FALSE]_vars

\* C19 witness: a close of two bricks with the session connected has ended
C19_Witness ==
    /\ pc = "quit"
    /\ lastOp = "Close"
    /\ Len(bricks) = 2
    /\ close_i = 2
    /\ wire_power = <<0, 0>>
    /\ ~mqtt_connected
    /\ ~loop_thread

\* C20: Connect, Disconnect, SetPower, CommitPower, SetDirection and Stop
\* change no brick but the selected one, and a command they hand over carries
\* the selected brick's identity.
C20_OnlySelectedChanges ==
    [][(lastOp' \in {"Connect", "Disconnect", "SetPower", "CommitPower",
                     "SetDirection", "Stop"})
       => /\ Len(bricks') = Len(bricks)
          /\ active_brick' = active_brick
          /\ \A i \in 1..Len(bricks) :
                i # active_brick => bricks'[i] = bricks[i]
          /\ Len(handed') > 0
                => /\ target' = active_brick
                   /\ SameIdentity(handed'[1], bricks[active_brick])]_vars

\* C20 witness: the second of two bricks was just given a new power while the
\* first, connected and running at another power, is not selected
C20_Witness ==
    /\ lastOp = "SetPower"
    /\ Len(bricks) = 2
    /\ active_brick = 2
    /\ bricks[2].power = 100
    /\ bricks[1].connected
    /\ bricks[1].power = 55
    /\ bricks[1].running

\* C15 (as stated): set_status_bar, the listener of message_received, is
\* never called with a payload that is not a JSON object holding "status" and
\* "message".
C15_MalformedNotDelivered ==
    \A k \in 1..Len(heard) : set_status_bar_raises(heard[k]) = "none"

\* C16: receiving a status message and handing it to set_status_bar changes
\* no brick, neither the list nor the selection.
C16_StatusLeavesBricks ==
    [][(lastOp' \in {"on_message", "set_status_bar"})
       => /\ bricks' = bricks
          /\ active_brick' = active_brick]_vars

\* C16 witness: a well-formed status was displayed while the selected brick
\* was connected and running at power 55
C16_Witness ==
    /\ lastOp = "set_status_bar"
    /\ statusbar_label = <<"ok", ",", "done">>
    /\ Len(heard) = 1
    /\ HasActive
    /\ Active.connected
    /\ Active.running
    /\ Active.power = 55

\* C21 (as stated): an add_brick that appends a brick creates it with
\* connected = FALSE, power = 0 and running = FALSE, leaves power, direction,
\* running and connected of every brick already in the list as they were, and
\* hands over no command.
C21_AddLeavesOthers ==
    [][(lastOp' = "AddBrick" /\ Len(bricks') = Len(bricks) + 1)
       => /\ bricks'[Len(bricks')].connected = FALSE
          /\ bricks'[Len(bricks')].power = 0
          /\ bricks'[Len(bricks')].running = FALSE
          /\ \A i \in 1..Len(bricks) :
                /\ bricks'[i].power = bricks[i].power
                /\ bricks'[i].direction = bricks[i].direction
                /\ bricks'[i].running = bricks[i].running
                /\ bricks'[i].connected = bricks[i].connected
          /\ Len(handed') = 0
          /\ Len(sent') = 0]_vars

\* C22 (as stated): whenever a brick is selected, the slider and the forward,
\* backward and stop buttons are enabled iff that brick is connected.
C22_ControlsIffConnected ==
    HasActive =>
        /\ slider_enabled = Active.connected
        /\ forward_btn = Active.connected
        /\ backward_btn = Active.connected
        /\ stop_btn = Active.connected

====
